---- MODULE Spec2Model ----
(***************************************************************************)
(* Model of the two stateful components of the dorsz CLI runner:           *)
(*   - InMemorySession (src/src/local_agents/in_memory_session.py), the    *)
(*     bounded conversation history;                                       *)
(*   - TopicList and its tool wrappers (src/src/tools/topics_registry.py), *)
(*     the process-wide topic registry.                                    *)
(* Every method is a pure operator computed the way the Python code        *)
(* computes it; every action applies one method and records the call, its  *)
(* arguments, the state before it and its return value.                    *)
(***************************************************************************)
EXTENDS Integers, Sequences, FiniteSets, TLC

(* ----------------------------- bounds --------------------------------- *)
\* largest max_items a session is constructed with
MaxCap == 2
\* number of distinct conversation items
NumItems == 2
\* longest history of appended items that is tracked
MaxLog == 4
\* how far a get_items limit may lie outside 0..max_items
LimitSlack == 2
\* largest number of topics added to the registry
MaxTopics == 3
NumThreads == 2

\* a single batch may be longer than the largest capacity
MaxBatch == MaxCap + 1

(* ---------------------- Python values and helpers --------------------- *)
\* Optional[T]: None is the empty sequence, a present value x is <<x>>
None == <<>>
Some(x) == <<x>>

Min(a, b) == IF a <= b THEN a ELSE b
Max(a, b) == IF a >= b THEN a ELSE b

\* Python's s[start:] for a list s and any integer start
PySliceFrom(s, start) ==
    LET n == Len(s)
        st == IF start < 0 THEN Max(n + start, 0) ELSE Min(start, n)
    IN  SubSeq(s, st + 1, n)

\* Python's s[:stop] for a list s and any integer stop
PySliceTo(s, stop) ==
    LET n == Len(s)
        sp == IF stop < 0 THEN Max(n + stop, 0) ELSE Min(stop, n)
    IN  SubSeq(s, 1, sp)

(* ------------------------- InMemorySession ---------------------------- *)
Item == 1..NumItems
Batches == UNION {[1..n -> Item] : n \in 0..MaxBatch}
Limits == {None} \cup {Some(l) : l \in (0 - LimitSlack)..(MaxCap + LimitSlack)}

\* mutant: the clamp is off by one
EffectiveLimitOffByOne(limit, mx) ==
    IF limit = None THEN mx ELSE Min(limit[1], mx - 1)

\* get_items, lines 39-43: the effective limit never exceeds max_items
EffectiveLimit(limit, mx) ==
    IF limit = None THEN mx ELSE Min(limit[1], mx)

\* mutant: the window is cut from the front of the list
GetItemsFromFront(its, mx, limit) ==
    IF its = <<>> THEN <<>>
    ELSE LET effective_limit == EffectiveLimit(limit, mx)
         IN  IF effective_limit >= Len(its) THEN its
             ELSE PySliceTo(its, effective_limit)

\* get_items: the value returned (the stored list is not changed)
GetItems(its, mx, limit) ==
    IF its = <<>> THEN <<>>
    ELSE LET effective_limit == EffectiveLimit(limit, mx)
         IN  IF effective_limit >= Len(its) THEN its
             ELSE PySliceFrom(its, 0 - effective_limit)

\* mutant: the stored list is cut down to the window returned
GetItemsTrimsInPlace(its, mx, limit) ==
    IF its = <<>> THEN <<>>
    ELSE LET effective_limit == EffectiveLimit(limit, mx)
         IN  IF effective_limit >= Len(its) THEN its
             ELSE PySliceFrom(its, 0 - effective_limit)

\* get_items: the stored list after the call (every path returns a copy or
\* a slice, self._items is never assigned)
GetItemsLeaves(its, mx, limit) == its

\* mutant: the history is trimmed before the new items are appended
AddItemsTrimFirst(its, mx, xs) ==
    IF xs = <<>> THEN its
    ELSE (IF Len(its) > mx THEN PySliceFrom(its, 0 - mx) ELSE its) \o xs

\* mutant: the trim keeps the oldest items instead of the newest
AddItemsKeepOldest(its, mx, xs) ==
    IF xs = <<>> THEN its
    ELSE LET extended == its \o xs
         IN  IF Len(extended) > mx THEN PySliceTo(extended, mx) ELSE extended

\* mutant: a full history drops its oldest item before the new ones are added
AddItemsMakesRoomFirst(its, mx, xs) ==
    LET extended == (IF Len(its) >= mx THEN Tail(its) ELSE its) \o xs
    IN  IF Len(extended) > mx THEN PySliceFrom(extended, 0 - mx) ELSE extended

\* add_items: the stored list after the call
AddItems(its, mx, xs) ==
    IF xs = <<>> THEN its
    ELSE LET extended == its \o xs
         IN  IF Len(extended) > mx THEN PySliceFrom(extended, 0 - mx)
             ELSE extended

\* mutant: the last item is returned but stays in the list
PopItemPeek(its) ==
    IF its = <<>> THEN [items |-> its, ret |-> None]
    ELSE [items |-> its, ret |-> Some(its[Len(its)])]

\* mutant: the oldest item is removed and returned
PopItemOldest(its) ==
    IF its = <<>> THEN [items |-> its, ret |-> None]
    ELSE [items |-> Tail(its), ret |-> Some(Head(its))]

\* mutant: no check for an empty list, on which list.pop() raises
PopItemNoEmptyCheck(its) ==
    IF its = <<>> THEN [items |-> its, ret |-> Some("IndexError")]
    ELSE [items |-> SubSeq(its, 1, Len(its) - 1), ret |-> Some(its[Len(its)])]

\* pop_item: the stored list after the call and the value returned
PopItem(its) ==
    IF its = <<>> THEN [items |-> its, ret |-> None]
    ELSE [items |-> SubSeq(its, 1, Len(its) - 1), ret |-> Some(its[Len(its)])]

\* mutant: the most recent item survives the clear
ClearSessionKeepsLast(its) == PySliceFrom(its, 0 - 1)

\* clear_session: the stored list after the call
ClearSession(its) == <<>>

VARIABLES
    max_items,  \* InMemorySession._max_items
    items,      \* InMemorySession._items
    sCall,      \* the last session call: op, argument, state before, result
    sPrev,      \* the session call made before the last one: its op, the
                \* number of items stored before it and, for an add_items
                \* of one item, the list before it and the item
    log,        \* items appended since the session was last empty by
                \* construction or clear_session, while tracked
    tracking    \* TRUE while log is complete (no pop_item, no overflow)

VARIABLES
    instance,   \* TopicList._instance: None or the identity of the object
    handles,    \* identities of the objects TopicList() has returned so far
    topics,     \* _GLOBAL_TOPICS.items
    rCall,      \* the last registry call: op, arguments, state before, result
    addRets,    \* the indices returned by the add calls, in call order
    addDescs    \* the descriptions passed to the add calls, in call order

VARIABLES
    threads,    \* per thread inside TopicList.add: where it is, the position
                \* of the item it appended, the appends other threads made
                \* since, the index it returned
    flow        \* the agent's loop over the open topics: where it is, the
                \* index it works on, the number of unanswered topics when it
                \* started, the indices it has resolved


\* what sPrev keeps of a call
CallSummary(call) ==
    [op |-> call.op,
     len |-> IF call.op = "init" THEN 0 ELSE Len(call.pre),
     single |-> IF call.op = "add_items" /\ Len(call.arg) = 1
                THEN Some([pre |-> call.pre, x |-> call.arg[1]])
                ELSE None]

\* InMemorySession(session_id, max_items=mx)
Construct(mx) ==
    /\ max_items = mx
    /\ items = <<>>
    /\ sCall = [op |-> "init"]
    /\ sPrev = [op |-> "init", len |-> 0, single |-> None]
    /\ log = <<>>
    /\ tracking = TRUE

SessionInit == \E mx \in 1..MaxCap : Construct(mx)

SAddItems ==
    \E xs \in Batches :
        /\ items' = AddItems(items, max_items, xs)
        /\ sCall' = [op |-> "add_items", arg |-> xs, pre |-> items, ret |-> None]
        /\ sPrev' = CallSummary(sCall)
        /\ IF tracking /\ Len(log) + Len(xs) <= MaxLog
           THEN log' = log \o xs /\ tracking' = TRUE
           ELSE log' = <<>> /\ tracking' = FALSE
        /\ UNCHANGED <<max_items, topics, rCall, addRets, addDescs, instance, handles, threads, flow>>

SGetItems ==
    \E limit \in Limits :
        /\ sCall' = [op |-> "get_items", arg |-> limit, pre |-> items,
                     ret |-> GetItems(items, max_items, limit)]
        /\ sPrev' = CallSummary(sCall)
        /\ items' = GetItemsLeaves(items, max_items, limit)
        /\ UNCHANGED <<max_items, log, tracking, topics, rCall, addRets, addDescs, instance, handles, threads, flow>>

SPopItem ==
    /\ items' = PopItem(items).items
    /\ sCall' = [op |-> "pop_item", arg |-> None, pre |-> items,
                 ret |-> PopItem(items).ret]
    /\ sPrev' = CallSummary(sCall)
    /\ log' = <<>>
    /\ tracking' = FALSE
    /\ UNCHANGED <<max_items, topics, rCall, addRets, addDescs, instance, handles, threads, flow>>

SClearSession ==
    /\ items' = ClearSession(items)
    /\ sCall' = [op |-> "clear_session", arg |-> None, pre |-> items, ret |-> None]
    /\ sPrev' = CallSummary(sCall)
    /\ log' = <<>>
    /\ tracking' = TRUE
    /\ UNCHANGED <<max_items, topics, rCall, addRets, addDescs, instance, handles, threads, flow>>

SessionNext == SAddItems \/ SGetItems \/ SPopItem \/ SClearSession


(* ----------------------------- TopicList ------------------------------ *)
\* descriptions are free text: one of them runs over two lines
Descriptions == {"d1", "d2\nmore"}
Conclusions == {"", "c1", "c2"}
Indexes == (0 - 2)..(MaxTopics + 1)

\* TopicItem(description=..., asked=..., conclusion=...)
TopicItem(description, asked, conclusion) ==
    [description |-> description, asked |-> asked, conclusion |-> conclusion]

\* mutant: only None is falsy
TruthyNotNone(x) == x # None

\* bool(x) of an Optional[str]: None and "" are falsy
Truthy(x) == x # None /\ x[1] # ""

\* TopicItem.answered
Answered(it) == Truthy(it.conclusion)

\* mutant: the returned index is the length after the append
AddReturnsLength(its, description) ==
    LET appended == Append(its, TopicItem(description, FALSE, None))
    IN  [items |-> appended, ret |-> Len(appended)]

\* mutant: a description already in the list is not added again
AddSkipsDuplicate(its, description) ==
    IF \E i \in 1..Len(its) : its[i].description = description
    THEN [items |-> its,
          ret |-> (CHOOSE i \in 1..Len(its) :
                       its[i].description = description) - 1]
    ELSE LET appended == Append(its, TopicItem(description, FALSE, None))
         IN  [items |-> appended, ret |-> Len(appended) - 1]

\* TopicList.add, line 60: self.items.append(TopicItem(description=...))
AddAppend(its, description) == Append(its, TopicItem(description, FALSE, None))

\* mutant: the index is the length of the list
AddIndexIsLength(its) == Len(its)

\* TopicList.add, line 61: return len(self.items) - 1
AddIndex(its) == Len(its) - 1

\* TopicList.add: the list after the call and the index returned
Add(its, description) ==
    LET appended == AddAppend(its, description)
    IN  [items |-> appended, ret |-> AddIndex(appended)]

\* mutant: the conclusion is not stored
MarkAnsweredDropsConclusion(its, index, conclusion) ==
    IF index < 0 \/ index >= Len(its) THEN [items |-> its, ret |-> FALSE]
    ELSE [items |-> [its EXCEPT ![index + 1].asked = TRUE], ret |-> TRUE]

\* mutant: the asked flag is not set
MarkAnsweredKeepsAsked(its, index, conclusion) ==
    IF index < 0 \/ index >= Len(its) THEN [items |-> its, ret |-> FALSE]
    ELSE [items |-> [its EXCEPT ![index + 1].conclusion = Some(conclusion)],
          ret |-> TRUE]

\* mutant: no check for a negative index, which Python counts from the end
MarkAnsweredNegativeWraps(its, index, conclusion) ==
    IF index >= Len(its) \/ index < 0 - Len(its)
    THEN [items |-> its, ret |-> FALSE]
    ELSE LET pos == IF index < 0 THEN Len(its) + index + 1 ELSE index + 1
         IN  [items |-> [its EXCEPT ![pos].conclusion = Some(conclusion),
                                    ![pos].asked = TRUE],
              ret |-> TRUE]

\* mutant: an empty conclusion is stored as None
MarkAnsweredEmptyToNone(its, index, conclusion) ==
    IF index < 0 \/ index >= Len(its) THEN [items |-> its, ret |-> FALSE]
    ELSE [items |-> [its EXCEPT
                       ![index + 1].conclusion =
                           IF conclusion = "" THEN None ELSE Some(conclusion),
                       ![index + 1].asked = TRUE],
          ret |-> TRUE]

\* mutant: asked follows the truth of the conclusion
MarkAnsweredAskedIfConcluded(its, index, conclusion) ==
    IF index < 0 \/ index >= Len(its) THEN [items |-> its, ret |-> FALSE]
    ELSE [items |-> [its EXCEPT ![index + 1].conclusion = Some(conclusion),
                                ![index + 1].asked = (conclusion # "")],
          ret |-> TRUE]

\* mutant: a resolved topic is taken out of the list
MarkAnsweredRemoves(its, index, conclusion) ==
    IF index < 0 \/ index >= Len(its) THEN [items |-> its, ret |-> FALSE]
    ELSE [items |-> SubSeq(its, 1, index) \o SubSeq(its, index + 2, Len(its)),
          ret |-> TRUE]

\* mutant: every item up to the index is flagged as asked
MarkAnsweredAsksEarlier(its, index, conclusion) ==
    IF index < 0 \/ index >= Len(its) THEN [items |-> its, ret |-> FALSE]
    ELSE [items |-> [k \in 1..Len(its) |->
                        IF k = index + 1
                        THEN [its[k] EXCEPT !.conclusion = Some(conclusion),
                                            !.asked = TRUE]
                        ELSE IF k <= index THEN [its[k] EXCEPT !.asked = TRUE]
                        ELSE its[k]],
          ret |-> TRUE]

\* mutant: asked is set but None is stored for an empty conclusion
MarkAnsweredAskedWithoutConclusion(its, index, conclusion) ==
    IF index < 0 \/ index >= Len(its) THEN [items |-> its, ret |-> FALSE]
    ELSE [items |-> [its EXCEPT
                       ![index + 1].conclusion =
                           IF conclusion = "" THEN its[index + 1].conclusion
                           ELSE Some(conclusion),
                       ![index + 1].asked = TRUE],
          ret |-> TRUE]

\* TopicList.mark_answered: the list after the call and the flag returned
MarkAnswered(its, index, conclusion) ==
    IF index < 0 \/ index >= Len(its) THEN [items |-> its, ret |-> FALSE]
    ELSE [items |-> [its EXCEPT ![index + 1].conclusion = Some(conclusion),
                                ![index + 1].asked = TRUE],
          ret |-> TRUE]

\* the loop of next_unanswered_index from position i (1-based) on
RECURSIVE ScanUnanswered(_, _)
ScanUnanswered(its, i) ==
    IF i > Len(its) THEN None
    ELSE IF ~Answered(its[i]) THEN Some(i - 1)
    ELSE ScanUnanswered(its, i + 1)

\* the same loop testing the asked flag
RECURSIVE ScanNotAsked(_, _)
ScanNotAsked(its, i) ==
    IF i > Len(its) THEN None
    ELSE IF ~its[i].asked THEN Some(i - 1)
    ELSE ScanNotAsked(its, i + 1)

\* the same loop run from the last item down
RECURSIVE ScanUnansweredDown(_, _)
ScanUnansweredDown(its, i) ==
    IF i < 1 THEN None
    ELSE IF ~Answered(its[i]) THEN Some(i - 1)
    ELSE ScanUnansweredDown(its, i - 1)

\* mutant: the scan starts at the end of the list
NextUnansweredIndexFromEnd(its) == ScanUnansweredDown(its, Len(its))

\* mutant: the scan looks for the first item not asked
NextUnansweredIndexByAsked(its) == ScanNotAsked(its, 1)

\* TopicList.next_unanswered_index: Optional[int]
NextUnansweredIndex(its) == ScanUnanswered(its, 1)

\* mutant: the newest unanswered topic is offered first
NextUnansweredTopicNewestFirst(its) ==
    LET idx == NextUnansweredIndexFromEnd(its)
    IN  IF idx = None THEN 0 - 1 ELSE idx[1]

\* tool next_unanswered_topic: -1 stands for None
NextUnansweredTopic(its) ==
    LET idx == NextUnansweredIndex(its)
    IN  IF idx = None THEN 0 - 1 ELSE idx[1]

\* mutant: the conclusion is shown whenever one is stored
SummaryLineShowsStored(i, it) ==
    LET status == IF Answered(it) THEN "ANSWERED" ELSE "OPEN"
        asked == IF it.asked THEN "asked" ELSE "not-asked"
        conclusion == IF it.conclusion # None
                      THEN " | conclusion: " \o it.conclusion[1] ELSE ""
    IN  "[" \o ToString(i) \o "] " \o status \o " (" \o asked \o ") :: "
            \o it.description \o conclusion

\* one line of summary_lines, for the item at 0-based index i
SummaryLine(i, it) ==
    LET status == IF Answered(it) THEN "ANSWERED" ELSE "OPEN"
        asked == IF it.asked THEN "asked" ELSE "not-asked"
        conclusion == IF Answered(it)
                      THEN " | conclusion: " \o it.conclusion[1] ELSE ""
    IN  "[" \o ToString(i) \o "] " \o status \o " (" \o asked \o ") :: "
            \o it.description \o conclusion

\* TopicList.summary_lines
SummaryLines(its) == [k \in 1..Len(its) |-> SummaryLine(k - 1, its[k])]

\* "\n".join(lines)
RECURSIVE JoinLines(_)
JoinLines(lines) ==
    IF lines = <<>> THEN ""
    ELSE IF Len(lines) = 1 THEN lines[1]
    ELSE lines[1] \o "\n" \o JoinLines(Tail(lines))

\* tool get_topics_summary
GetTopicsSummary(its) ==
    LET lines == SummaryLines(its)
    IN  IF lines = <<>> THEN "No topics registered yet." ELSE JoinLines(lines)

\* mutant: every construction resets the items of the shared instance
NewResetsItems(inst, its, fresh) ==
    IF inst = None
    THEN [instance |-> Some(fresh), items |-> <<>>, ret |-> fresh]
    ELSE [instance |-> inst, items |-> <<>>, ret |-> inst[1]]

\* TopicList.__new__: inst is cls._instance, its the items of the object it
\* refers to, fresh the identity a newly allocated object gets; the result
\* is cls._instance and those items after the call and the object returned
New(inst, its, fresh) ==
    IF inst = None
    THEN [instance |-> Some(fresh), items |-> <<>>, ret |-> fresh]
    ELSE [instance |-> inst, items |-> its, ret |-> inst[1]]

Threads == 1..NumThreads

\* a thread that is not inside add
ThreadIdle == [pc |-> "idle", pos |-> 0 - 1, between |-> 0, ret |-> 0 - 1]

\* the agent has not started to work through the topics
FlowIdle == [pc |-> "setup", idx |-> 0 - 1, todo |-> 0, visited |-> <<>>]

RegistryInit ==
    /\ instance = None
    /\ handles = {}
    /\ topics = <<>>
    /\ rCall = [op |-> "init"]
    /\ addRets = <<>>
    /\ addDescs = <<>>
    /\ threads = [t \in Threads |-> ThreadIdle]
    /\ flow = FlowIdle

\* TopicList(): first by the module itself (_GLOBAL_TOPICS), later by any
\* caller
RConstruct ==
    LET r == New(instance, topics, Cardinality(handles) + 1)
    IN  /\ instance' = r.instance
        /\ topics' = r.items
        /\ handles' = handles \cup {r.ret}
        /\ rCall' = [op |-> "TopicList", pre |-> topics, ret |-> r.ret]
        /\ UNCHANGED <<addRets, addDescs, max_items, items, sCall, sPrev, log, tracking, threads, flow>>

RAddTopic ==
    \E description \in Descriptions :
        /\ instance # None
        /\ Len(topics) < MaxTopics
        /\ topics' = Add(topics, description).items
        /\ rCall' = [op |-> "add_topic", description |-> description,
                     pre |-> topics, ret |-> Add(topics, description).ret]
        /\ addRets' = Append(addRets, Add(topics, description).ret)
        /\ addDescs' = Append(addDescs, description)
        /\ UNCHANGED <<instance, handles, max_items, items, sCall, sPrev, log, tracking, threads, flow>>

\* tool mark_topic_answered(index, conclusion)
MarkTopicAnsweredCall(index, conclusion) ==
    /\ instance # None
    /\ topics' = MarkAnswered(topics, index, conclusion).items
    /\ rCall' = [op |-> "mark_topic_answered", index |-> index,
                 conclusion |-> conclusion, pre |-> topics,
                 ret |-> MarkAnswered(topics, index, conclusion).ret]
    /\ UNCHANGED <<instance, handles, addRets, addDescs, max_items, items, sCall, sPrev, log, tracking, threads>>

RMarkTopicAnswered ==
    \E index \in Indexes, conclusion \in Conclusions :
        MarkTopicAnsweredCall(index, conclusion) /\ UNCHANGED flow

\* tool next_unanswered_topic()
NextUnansweredTopicCall ==
    /\ instance # None
    /\ rCall' = [op |-> "next_unanswered_topic", pre |-> topics,
                 ret |-> NextUnansweredTopic(topics)]
    /\ UNCHANGED <<instance, handles, topics, addRets, addDescs, max_items, items, sCall, sPrev, log, tracking, threads>>

RNextUnansweredTopic == NextUnansweredTopicCall /\ UNCHANGED flow

RGetTopicsSummary ==
    /\ instance # None
    /\ rCall' = [op |-> "get_topics_summary", pre |-> topics,
                 ret |-> GetTopicsSummary(topics)]
    /\ UNCHANGED <<instance, handles, topics, addRets, addDescs, max_items, items, sCall, sPrev, log, tracking, threads, flow>>

RegistryNext ==
    \/ RConstruct
    \/ RAddTopic
    \/ RMarkTopicAnswered
    \/ RNextUnansweredTopic
    \/ RGetTopicsSummary

(* ------------------ a session built with max_items = 0 ---------------- *)
\* add_items while the stored list stays within MaxLog items (with
\* max_items = 0 nothing else bounds it)
SAddItemsZero == SAddItems /\ Len(items') <= MaxLog

ZeroNext == SAddItemsZero \/ SGetItems \/ SPopItem \/ SClearSession

(* --------------- add called from several threads at once -------------- *)
\* thread t runs line 60 of add: the append
CAppend(t) ==
    \E description \in Descriptions :
        /\ instance # None
        /\ threads[t].pc # "appended"
        /\ Len(topics) < MaxTopics
        /\ topics' = AddAppend(topics, description)
        /\ threads' = [u \in Threads |->
                          IF u = t
                          THEN [pc |-> "appended", pos |-> Len(topics),
                                between |-> 0, ret |-> 0 - 1]
                          ELSE IF threads[u].pc = "appended"
                          THEN [threads[u] EXCEPT !.between = @ + 1]
                          ELSE threads[u]]
        /\ UNCHANGED <<instance, handles, rCall, addRets, addDescs, flow, max_items, items, sCall, sPrev, log, tracking>>

\* thread t runs line 61 of add: the length read and the return
CReturn(t) ==
    /\ threads[t].pc = "appended"
    /\ threads' = [threads EXCEPT ![t].pc = "done", ![t].ret = AddIndex(topics)]
    /\ UNCHANGED <<instance, handles, topics, rCall, addRets, addDescs, flow, max_items, items, sCall, sPrev, log, tracking>>

CAppendAny == \E t \in Threads : CAppend(t)

CReturnAny == \E t \in Threads : CReturn(t)

ConcurrentNext == RConstruct \/ CAppendAny \/ CReturnAny

(* ------------------ the agent's loop over open topics ----------------- *)
\* before the loop: topics are registered and some are resolved
FConstruct == flow.pc = "setup" /\ RConstruct

FAddTopic == flow.pc = "setup" /\ RAddTopic

FMarkEarlier == flow.pc = "setup" /\ RMarkTopicAnswered

\* what the loop does with the index next_unanswered_topic() returned
FlowAfterQuery(f, idx) ==
    [f EXCEPT !.pc = IF idx = 0 - 1 THEN "done" ELSE "mark", !.idx = idx]

\* the loop starts with its first idx = next_unanswered_topic(); todo counts
\* the topics unanswered at this moment
FStart ==
    /\ flow.pc = "setup"
    /\ NextUnansweredTopicCall
    /\ flow' = FlowAfterQuery(
                   [flow EXCEPT
                      !.todo = Cardinality({i \in 1..Len(topics) :
                                               ~Answered(topics[i])})],
                   NextUnansweredTopic(topics))

\* idx = next_unanswered_topic() after a topic was resolved; the loop ends
\* on -1
FQuery ==
    /\ flow.pc = "query"
    /\ NextUnansweredTopicCall
    /\ flow' = FlowAfterQuery(flow, NextUnansweredTopic(topics))

\* mark_topic_answered(idx, c) with a conclusion c that is not empty
FMark ==
    /\ flow.pc = "mark"
    /\ \E conclusion \in Conclusions \ {""} :
           MarkTopicAnsweredCall(flow.idx, conclusion)
    /\ flow' = [flow EXCEPT !.pc = "query",
                            !.visited = Append(@, flow.idx)]

FlowNext == FConstruct \/ FAddTopic \/ FMarkEarlier \/ FStart \/ FQuery \/ FMark

vars == <<max_items, items, sCall, sPrev, log, tracking, topics, rCall, addRets, addDescs, instance, handles, threads, flow>>

Init == SessionInit /\ RegistryInit

\* the program uses one of the two components, which share no state
EitherNext ==
    \/ (rCall.op = "init" /\ instance = None) /\ SessionNext
    \/ sCall.op = "init" /\ RegistryNext

\* the session was built with max_items = 0
InitZero == Construct(0) /\ RegistryInit

\* the session on its own; the registry is not touched
SpecSession == Init /\ [][SessionNext]_vars

\* the registry on its own; the session is not touched
SpecRegistry == Init /\ [][RegistryNext]_vars

\* either component, for the claims that speak of both
SpecComponents == Init /\ [][EitherNext]_vars

\* the session with max_items = 0
SpecZero == InitZero /\ [][ZeroNext]_vars

\* add_topic from NumThreads threads, interleaved line by line
SpecConcurrent == Init /\ [][ConcurrentNext]_vars

\* the agent's loop; once started it keeps taking its next step
SpecFlow ==
    Init /\ [][FlowNext]_vars /\ WF_vars(FQuery) /\ WF_vars(FMark)

(* ---------------------- session: claim vocabulary --------------------- *)
\* the last n elements of s, in order (all of s when it has at most n)
LastN(s, n) ==
    IF n <= 0 THEN <<>>
    ELSE IF Len(s) <= n THEN s
    ELSE [i \in 1..n |-> s[Len(s) - n + i]]

\* r is a contiguous tail of s
IsSuffix(r, s) ==
    /\ Len(r) <= Len(s)
    /\ \A i \in 1..Len(r) : r[i] = s[Len(s) - Len(r) + i]

\* C1: a session constructed with a positive max_items never stores more
\* than max_items items, whatever add_items, get_items, pop_item and
\* clear_session calls were made, batches longer than max_items included.
C1_Capacity == max_items > 0 => Len(items) <= max_items

C1_Witness ==
    /\ sCall.op = "add_items"
    /\ Len(sCall.arg) > max_items
    /\ sCall.pre # <<>>
    /\ Len(items) = max_items

\* C2: after add_items(xs) the stored list is the last max_items elements of
\* the previous list followed by xs; so after appending to an empty session
\* (in any batches) the stored list, and get_items() without a limit, are
\* the last max_items appended items, oldest first.
C2_FifoEviction ==
    /\ sCall.op = "add_items" =>
           items = LastN(sCall.pre \o sCall.arg, max_items)
    /\ tracking => items = LastN(log, max_items)
    /\ (tracking /\ sCall.op = "get_items" /\ sCall.arg = None) =>
           sCall.ret = LastN(log, max_items)

C2_Witness ==
    /\ tracking
    /\ Len(log) > max_items
    /\ sCall.op = "get_items"
    /\ sCall.arg = None
    /\ Len(sCall.ret) = max_items
    /\ sCall.ret = LastN(log, max_items)
    /\ sCall.ret # SubSeq(log, 1, max_items)

\* C8: get_items(limit) on a non-empty session, with effective_limit =
\* min(limit, max_items): it returns all stored items when effective_limit
\* is at least their number, otherwise exactly the last effective_limit
\* stored items; the result never has more than limit items (none for a
\* limit below zero, read in the claim's favour).
C8_LimitedWindow ==
    (sCall.op = "get_items" /\ sCall.arg # None /\ sCall.pre # <<>>) =>
        LET limit == sCall.arg[1]
            effective_limit == Min(limit, max_items)
        IN  /\ IF effective_limit >= Len(sCall.pre)
               THEN sCall.ret = sCall.pre
               ELSE sCall.ret = LastN(sCall.pre, effective_limit)
            /\ Len(sCall.ret) <= Max(limit, 0)

\* C9: whatever the limit (absent, zero, negative, larger than max_items),
\* get_items returns at most max_items elements and they are a tail of the
\* stored items in their stored order.
C9_WindowWithinCapacity ==
    sCall.op = "get_items" =>
        /\ Len(sCall.ret) <= max_items
        /\ IsSuffix(sCall.ret, sCall.pre)

C9_Witness ==
    /\ sCall.op = "get_items"
    /\ sCall.arg # None
    /\ sCall.arg[1] < 0
    /\ Len(sCall.pre) = max_items
    /\ sCall.ret # <<>>
    /\ sCall.ret # sCall.pre

\* C10: get_items(limit) with limit > max_items returns what
\* get_items(max_items) returns, which is what get_items() returns.
C10_OversizeLimitClamped ==
    (sCall.op = "get_items" /\ sCall.arg # None /\ sCall.arg[1] > max_items) =>
        /\ sCall.ret = GetItems(sCall.pre, max_items, Some(max_items))
        /\ sCall.ret = GetItems(sCall.pre, max_items, None)
        /\ sCall.ret = sCall.pre

C10_Witness ==
    /\ sCall.op = "get_items"
    /\ sCall.arg # None
    /\ sCall.arg[1] > max_items
    /\ Len(sCall.pre) = max_items
    /\ sCall.ret = sCall.pre
(* --------------------------- registry claims -------------------------- *)
\* the index passed to the last mark_topic_answered call is in range
MarkInRange ==
    /\ rCall.op = "mark_topic_answered"
    /\ 0 <= rCall.index
    /\ rCall.index < Len(rCall.pre)

\* C3: from an empty registry the add calls return 0, 1, ..., N-1 in call
\* order, whatever other calls are interleaved, and each add returns the
\* length the sequence had before it.
C3_AddIndices ==
    /\ \A k \in 1..Len(addRets) : addRets[k] = k - 1
    /\ rCall.op = "add_topic" => rCall.ret = Len(rCall.pre)

C3_Witness ==
    /\ rCall.op = "add_topic"
    /\ Len(addRets) = 3
    /\ rCall.ret = 2
    /\ \E i \in 1..Len(rCall.pre) : rCall.pre[i].asked

\* C4 as claimed: for an index in range and every conclusion string c,
\* mark_answered returns true, stores c, sets asked, and the item is
\* answered afterwards.
C4_MarkAnsweredAnswers ==
    MarkInRange =>
        /\ rCall.ret = TRUE
        /\ topics[rCall.index + 1].conclusion = Some(rCall.conclusion)
        /\ topics[rCall.index + 1].asked = TRUE
        /\ Answered(topics[rCall.index + 1])

\* C4 as amended: for an index in range and every conclusion string c,
\* mark_answered returns true, stores c and sets asked; the item is answered
\* afterwards exactly when c is not the empty string.
C4_MarkAnsweredNonEmpty ==
    MarkInRange =>
        /\ rCall.ret = TRUE
        /\ topics[rCall.index + 1].conclusion = Some(rCall.conclusion)
        /\ topics[rCall.index + 1].asked = TRUE
        /\ Answered(topics[rCall.index + 1]) <=> rCall.conclusion # ""

C4_Witness ==
    /\ MarkInRange
    /\ rCall.conclusion # ""
    /\ ~rCall.pre[rCall.index + 1].asked
    /\ rCall.ret = TRUE
    /\ Answered(topics[rCall.index + 1])

\* C5: for an index below 0 or at least the length (the empty registry
\* included) mark_answered returns false and the registry is as before:
\* same length, every item's fields identical.
C5_MarkAnsweredOutOfRange ==
    (rCall.op = "mark_topic_answered" /\ ~MarkInRange) =>
        /\ rCall.ret = FALSE
        /\ Len(topics) = Len(rCall.pre)
        /\ \A i \in 1..Len(topics) : topics[i] = rCall.pre[i]

C5_Witness ==
    /\ rCall.op = "mark_topic_answered"
    /\ rCall.index < 0
    /\ rCall.pre # <<>>
    /\ rCall.ret = FALSE
    /\ topics = rCall.pre

\* r is -1 when no item of its is unanswered, else the smallest 0-based
\* index of an unanswered item
IsNextUnanswered(its, r) ==
    LET open == {i \in 0..(Len(its) - 1) : ~Answered(its[i + 1])}
    IN  /\ open = {} => r = 0 - 1
        /\ open # {} => (r \in open /\ \A j \in open : r <= j)
        /\ r = 0 - 1 \/ r \in 0..(Len(its) - 1)

\* C6: in every reachable registry state next_unanswered_topic() is -1 when
\* the registry is empty or all items are answered, else the smallest index
\* of an unanswered item; it is always -1 or an index below the length.
C6_NextUnanswered ==
    /\ IsNextUnanswered(topics, NextUnansweredTopic(topics))
    /\ rCall.op = "next_unanswered_topic" =>
           IsNextUnanswered(rCall.pre, rCall.ret)

C6_Witness ==
    /\ rCall.op = "next_unanswered_topic"
    /\ Len(topics) = 3
    /\ Answered(topics[1])
    /\ topics[2].asked /\ ~Answered(topics[2])
    /\ ~Answered(topics[3])
    /\ rCall.ret = 1

\* C7: in every state reached through add and mark_answered every item that
\* is answered is asked (no non-empty conclusion with asked false).
C7_AnsweredImpliesAsked ==
    \A i \in 1..Len(topics) : Answered(topics[i]) => topics[i].asked

C7_Witness ==
    /\ rCall.op = "mark_topic_answered"
    /\ \E i \in 1..Len(topics) : Answered(topics[i]) /\ topics[i].asked
    /\ \E i \in 1..Len(topics) : ~topics[i].asked
(* ----------------------- session claims, continued -------------------- *)
\* C11: pop_item on a non-empty session returns the last stored item and
\* leaves the previous list without its last element: one item fewer, the
\* others unchanged and in the same order.
C11_PopReturnsLast ==
    (sCall.op = "pop_item" /\ sCall.pre # <<>>) =>
        /\ sCall.ret = Some(sCall.pre[Len(sCall.pre)])
        /\ Len(items) = Len(sCall.pre) - 1
        /\ \A i \in 1..Len(items) : items[i] = sCall.pre[i]

C11_Witness ==
    /\ sCall.op = "pop_item"
    /\ Len(sCall.pre) = 2
    /\ sCall.pre[1] # sCall.pre[2]
    /\ sCall.ret = Some(sCall.pre[2])
    /\ items = <<sCall.pre[1]>>

\* C12: pop_item on an empty session returns None and leaves the session
\* empty; so it does right after clear_session and right after the pop
\* that removed the last remaining item.
C12_PopOnEmpty ==
    sCall.op = "pop_item" =>
        /\ sCall.pre = <<>> => (sCall.ret = None /\ items = <<>>)
        /\ sPrev.op = "clear_session" => (sCall.ret = None /\ items = <<>>)
        /\ (sPrev.op = "pop_item" /\ sPrev.len = 1) =>
               (sCall.ret = None /\ items = <<>>)

C12_Witness ==
    /\ sCall.op = "pop_item"
    /\ sPrev.op = "pop_item"
    /\ sPrev.len = 1
    /\ sCall.ret = None
    /\ items = <<>>

\* C13: clear_session empties the session from any state, a get_items made
\* right after it returns the empty sequence whatever its limit, and an
\* add_items made right after it stores the batch under the same max_items.
C13_ClearThenRead ==
    /\ sCall.op = "clear_session" => items = <<>>
    /\ (sPrev.op = "clear_session" /\ sCall.op = "get_items") =>
           sCall.ret = <<>>
    /\ (sPrev.op = "clear_session" /\ sCall.op = "add_items") =>
           items = LastN(sCall.arg, max_items)

C13_Witness ==
    /\ sPrev.op = "clear_session"
    /\ sPrev.len = max_items
    /\ sCall.op = "get_items"
    /\ sCall.arg # None
    /\ sCall.ret = <<>>

\* C14: add_items with an empty list changes nothing: the stored sequence
\* and its length are the same before and after.
C14_AddNothing ==
    (sCall.op = "add_items" /\ sCall.arg = <<>>) =>
        /\ items = sCall.pre
        /\ Len(items) = Len(sCall.pre)

C14_Witness ==
    /\ sCall.op = "add_items"
    /\ sCall.arg = <<>>
    /\ Len(sCall.pre) = max_items
    /\ items = sCall.pre
(* ----------------------- registry claims, continued ------------------- *)
\* C15: add(description) appends exactly one item, at the end, with that
\* description, asked false and conclusion None (so not answered); the
\* length grows by one and the items already there are unchanged; a text
\* already in the list is added again as a new entry.
C15_AddAppendsOpenItem ==
    rCall.op = "add_topic" =>
        /\ Len(topics) = Len(rCall.pre) + 1
        /\ topics[Len(topics)] =
               [description |-> rCall.description, asked |-> FALSE,
                conclusion |-> None]
        /\ ~Answered(topics[Len(topics)])
        /\ \A i \in 1..Len(rCall.pre) : topics[i] = rCall.pre[i]

C15_Witness ==
    /\ rCall.op = "add_topic"
    /\ \E i \in 1..Len(rCall.pre) :
           /\ rCall.pre[i].description = rCall.description
           /\ Answered(rCall.pre[i])
    /\ Len(topics) = Len(rCall.pre) + 1
    /\ ~topics[Len(topics)].asked

\* C16 as claimed: a conclusion that has been set is never cleared or
\* overwritten: it has the same value in every later state.
C16_ConclusionFrozen ==
    [][\A i \in 1..Len(topics) :
           topics[i].conclusion # None =>
               /\ i <= Len(topics')
               /\ topics'[i].conclusion = topics[i].conclusion]_vars

\* C16 as amended: a conclusion that has been set is never cleared back to
\* None, and it changes only by a later successful mark_answered on the same
\* index, which replaces it by the conclusion passed.
C16_ConclusionNeverCleared ==
    [][\A i \in 1..Len(topics) :
           topics[i].conclusion # None =>
               /\ i <= Len(topics')
               /\ topics'[i].conclusion # None
               /\ topics'[i].conclusion # topics[i].conclusion =>
                      /\ rCall'.op = "mark_topic_answered"
                      /\ rCall'.index = i - 1
                      /\ rCall'.ret = TRUE
                      /\ topics'[i].conclusion = Some(rCall'.conclusion)]_vars

C16_Witness ==
    /\ MarkInRange
    /\ rCall.pre[rCall.index + 1].conclusion # None
    /\ topics[rCall.index + 1].conclusion
           # rCall.pre[rCall.index + 1].conclusion
    /\ topics[rCall.index + 1].conclusion = Some(rCall.conclusion)

\* C17: asked is monotone: an item whose asked flag is true keeps it true in
\* every later state, whatever add, mark_answered, next_unanswered and
\* summary calls follow.
C17_AskedMonotone ==
    [][\A i \in 1..Len(topics) :
           topics[i].asked => (i <= Len(topics') /\ topics'[i].asked)]_vars

C17_Witness ==
    /\ MarkInRange
    /\ rCall.pre[rCall.index + 1].asked
    /\ rCall.conclusion = ""
    /\ topics[rCall.index + 1].asked

\* C18: the index is a stable identity: the length never decreases, no item
\* is removed or moved, and the item at an index returned by add keeps the
\* description passed to that add in every later state.
C18_IndexStable ==
    /\ [](/\ Len(addRets) = Len(addDescs)
          /\ \A k \in 1..Len(addRets) :
                 /\ addRets[k] + 1 \in 1..Len(topics)
                 /\ topics[addRets[k] + 1].description = addDescs[k])
    /\ [][/\ Len(topics') >= Len(topics)
          /\ \A i \in 1..Len(topics) :
                 topics'[i].description = topics[i].description]_vars

C18_Witness ==
    /\ MarkInRange
    /\ rCall.index = 0
    /\ Len(topics) = 3
    /\ addDescs[1] # addDescs[2]
    /\ topics[1].description = addDescs[1]
    /\ topics[2].description = addDescs[2]
\* C19: the registry is one shared instance: every TopicList() returns the
\* same object and leaves its items as they were, the tools work on that
\* object, and what one caller added or resolved is what the queries of any
\* other caller return.
C19_SharedInstance ==
    /\ instance = None => (handles = {} /\ topics = <<>>)
    /\ instance # None => handles = {instance[1]}
    /\ rCall.op = "TopicList" =>
           /\ rCall.ret = instance[1]
           /\ topics = rCall.pre
    /\ rCall.op = "add_topic" =>
           /\ Len(SummaryLines(topics)) = Len(rCall.pre) + 1
           /\ NextUnansweredTopic(topics) # 0 - 1
    /\ (MarkInRange /\ rCall.conclusion # "") =>
           NextUnansweredTopic(topics) # rCall.index

C19_Witness ==
    /\ rCall.op = "TopicList"
    /\ Len(rCall.pre) = 2
    /\ Answered(rCall.pre[1])
    /\ topics = rCall.pre
    /\ handles = {instance[1]}
(* ------------------------------ summary text -------------------------- *)
\* position of the first line break of s at or after position i, 0 if none
RECURSIVE FirstBreak(_, _)
FirstBreak(s, i) ==
    IF i > Len(s) THEN 0
    ELSE IF SubSeq(s, i, i) = "\n" THEN i
    ELSE FirstBreak(s, i + 1)

\* the lines of the text s, as s.split("\n") gives them
RECURSIVE SplitLines(_)
SplitLines(s) ==
    LET b == FirstBreak(s, 1)
    IN  IF b = 0 THEN <<s>>
        ELSE <<SubSeq(s, 1, b - 1)>> \o SplitLines(SubSeq(s, b + 1, Len(s)))

\* the text s starts with the text p
StartsWith(s, p) == Len(p) <= Len(s) /\ SubSeq(s, 1, Len(p)) = p

\* C20: get_topics_summary() returns the fixed non-empty placeholder
\* "No topics registered yet." exactly when the registry is empty; otherwise
\* its text has exactly one line per item, in index order, line k being the
\* line of item k, so as many lines as the registry has items.
C20_SummaryOneLinePerItem ==
    rCall.op = "get_topics_summary" =>
        /\ rCall.ret = "No topics registered yet." <=> rCall.pre = <<>>
        /\ Len(rCall.ret) > 0
        /\ rCall.pre # <<>> =>
               LET lines == SplitLines(rCall.ret)
               IN  /\ Len(lines) = Len(rCall.pre)
                   /\ \A k \in 1..Len(lines) :
                          /\ StartsWith(lines[k], "[" \o ToString(k - 1) \o "] ")
                          /\ lines[k] = SummaryLine(k - 1, rCall.pre[k])
(* ------------------------- summary line claims ------------------------ *)
\* what is left of the text s after its first n characters
Drop(s, n) == SubSeq(s, n + 1, Len(s))

\* the text line reads, in this order: [i], the status token, the asked
\* token in brackets, the description, and the conclusion after its
\* separator when and only when the item is answered
LineShows(line, i, it) ==
    LET index == "[" \o ToString(i) \o "] "
        afterIndex == Drop(line, Len(index))
        status == IF StartsWith(afterIndex, "ANSWERED ") THEN "ANSWERED "
                  ELSE "OPEN "
        afterStatus == Drop(afterIndex, Len(status))
        asked == IF StartsWith(afterStatus, "(asked) :: ") THEN "(asked) :: "
                 ELSE "(not-asked) :: "
        afterAsked == Drop(afterStatus, Len(asked))
        rest == Drop(afterAsked, Len(it.description))
    IN  /\ StartsWith(line, index)
        /\ StartsWith(afterIndex, status)
        /\ status = "ANSWERED " <=> Answered(it)
        /\ StartsWith(afterStatus, asked)
        /\ asked = "(asked) :: " <=> it.asked
        /\ StartsWith(afterAsked, it.description)
        /\ IF Answered(it)
           THEN rest = " | conclusion: " \o it.conclusion[1]
           ELSE rest = ""
        /\ ~StartsWith(afterIndex, "ANSWERED (not-asked)")

\* C21: the summary line of item i shows index i, ANSWERED exactly when the
\* item is answered and OPEN otherwise, asked exactly when its asked flag is
\* set and not-asked otherwise, the description, and the conclusion suffix
\* exactly when the item is answered; no line reads ANSWERED (not-asked).
C21_SummaryLineFormat ==
    /\ Len(SummaryLines(topics)) = Len(topics)
    /\ \A k \in 1..Len(topics) :
           LineShows(SummaryLines(topics)[k], k - 1, topics[k])

C21_Witness ==
    /\ rCall.op = "get_topics_summary"
    /\ Len(topics) = 3
    /\ Answered(topics[1])
    /\ topics[2].asked /\ ~Answered(topics[2])
    /\ ~topics[3].asked
    /\ LineShows(SummaryLines(topics)[2], 1, topics[2])

\* C22: a successful mark_answered(i, c) changes nothing but asked and
\* conclusion of item i: the length, the description of item i and every
\* field of every other item stay as they were.
C22_MarkAnsweredFrame ==
    MarkInRange =>
        /\ rCall.ret = TRUE
        /\ Len(topics) = Len(rCall.pre)
        /\ topics[rCall.index + 1].description
               = rCall.pre[rCall.index + 1].description
        /\ \A j \in 1..Len(topics) :
               j # rCall.index + 1 => topics[j] = rCall.pre[j]

C22_Witness ==
    /\ MarkInRange
    /\ rCall.index = 1
    /\ Len(topics) = 3
    /\ topics[2] # rCall.pre[2]
    /\ ~topics[1].asked
    /\ topics[3] = rCall.pre[3]

\* C24: asked becomes true only through resolution: in every reachable
\* state an item with asked = true has a conclusion that is not None, and a
\* step changes an item's asked flag only when it is a successful
\* mark_answered on that item.
C24_AskedOnlyByResolution ==
    /\ [](\A i \in 1..Len(topics) :
              topics[i].asked => topics[i].conclusion # None)
    /\ [][\A i \in 1..Len(topics) :
              (i <= Len(topics') /\ topics'[i].asked # topics[i].asked) =>
                  /\ rCall'.op = "mark_topic_answered"
                  /\ rCall'.index = i - 1
                  /\ rCall'.ret = TRUE]_vars

C24_Witness ==
    /\ MarkInRange
    /\ ~rCall.pre[rCall.index + 1].asked
    /\ topics[rCall.index + 1].asked
    /\ topics[rCall.index + 1].conclusion = Some("")

\* C27: mark_answered(i, "") on an index in range returns true and sets
\* asked, but the item is not answered: its summary line reads OPEN (asked)
\* and next_unanswered returns i when no earlier item is open; an item that
\* was answered before the call is unanswered after it.
C27_EmptyConclusion ==
    (MarkInRange /\ rCall.conclusion = "") =>
        LET i == rCall.index
        IN  /\ rCall.ret = TRUE
            /\ topics[i + 1].asked
            /\ ~Answered(topics[i + 1])
            /\ StartsWith(SummaryLines(topics)[i + 1],
                          "[" \o ToString(i) \o "] OPEN (asked) :: ")
            /\ NextUnansweredTopic(topics) \in 0..i
            /\ (\A j \in 1..i : Answered(topics[j])) =>
                   NextUnansweredTopic(topics) = i

C27_Witness ==
    /\ MarkInRange
    /\ rCall.conclusion = ""
    /\ Answered(rCall.pre[rCall.index + 1])
    /\ ~Answered(topics[rCall.index + 1])
    /\ rCall.index = 1
    /\ NextUnansweredTopic(rCall.pre) = 2
    /\ NextUnansweredTopic(topics) = 1

\* what next_unanswered_topic returns, with the length in place of -1
NextOrEnd(its) ==
    LET r == NextUnansweredTopic(its)
    IN  IF r = 0 - 1 THEN Len(its) ELSE r

\* C28: over steps whose mark_answered calls pass a non-empty conclusion,
\* an answered item stays answered and the non-negative results of
\* next_unanswered_topic() never decrease: an index skipped as answered is
\* not returned again.  (Two non-negative results are compared as they are;
\* a result of -1 counts as the length, the index the next add would get.)
C28_NextNeverDecreases ==
    [][~(rCall'.op = "mark_topic_answered" /\ rCall'.conclusion = "") =>
           /\ \A i \in 1..Len(topics) :
                  Answered(topics[i]) =>
                      (i <= Len(topics') /\ Answered(topics'[i]))
           /\ NextOrEnd(topics') >= NextOrEnd(topics)]_vars

C28_Witness ==
    /\ MarkInRange
    /\ rCall.conclusion # ""
    /\ NextUnansweredTopic(rCall.pre) = 0
    /\ rCall.index = 0
    /\ Len(topics) = 3
    /\ Answered(topics[2])
    /\ NextUnansweredTopic(topics) = 2
(* ----------------------- session claims, round trip ------------------- *)
\* C29: add_items([x]) followed by pop_item returns x; afterwards the stored
\* list is the list before the add_items exactly when that list had fewer
\* than max_items items, and otherwise it is that list without its oldest
\* item, max_items - 1 items long.
C29_AppendPopRoundTrip ==
    (sCall.op = "pop_item" /\ sPrev.op = "add_items" /\ sPrev.single # None) =>
        LET before == sPrev.single[1].pre
            x == sPrev.single[1].x
        IN  /\ sCall.ret = Some(x)
            /\ items = before <=> Len(before) < max_items
            /\ Len(before) >= max_items =>
                   /\ items = Tail(before)
                   /\ Len(items) = max_items - 1

C29_Witness ==
    /\ sCall.op = "pop_item"
    /\ sPrev.op = "add_items"
    /\ sPrev.single # None
    /\ max_items = 2
    /\ Len(sPrev.single[1].pre) = 2
    /\ sPrev.single[1].pre[1] # sPrev.single[1].pre[2]
    /\ items = <<sPrev.single[1].pre[2]>>
    /\ sCall.ret = Some(sPrev.single[1].x)
(* ---------------------------- pure queries ---------------------------- *)
\* C23: next_unanswered_topic, get_topics_summary and get_items leave the
\* state of their component as it was: no step with one of these calls
\* changes the topics, the shared instance, the stored session items or
\* max_items, so the calls before and after it see the same state and the
\* same items are evicted whether or not the query is made.
C23_QueriesPure ==
    /\ [](/\ rCall.op \in {"next_unanswered_topic", "get_topics_summary"} =>
                 topics = rCall.pre
          /\ sCall.op = "get_items" => items = sCall.pre)
    /\ [][/\ rCall'.op \in {"next_unanswered_topic", "get_topics_summary"} =>
                 /\ topics' = topics
                 /\ instance' = instance
                 /\ handles' = handles
          /\ sCall'.op = "get_items" =>
                 /\ items' = items
                 /\ max_items' = max_items]_vars

C23_Witness ==
    /\ sCall.op = "get_items"
    /\ Len(sCall.pre) = 2
    /\ Len(sCall.ret) = 1
    /\ items = sCall.pre

(* --------------------- max_items = 0 at construction ------------------ *)
\* C30: a session built with max_items = 0 never stores an item and
\* get_items always returns the empty sequence.
C30_ZeroCapacityStoresNothing ==
    max_items = 0 =>
        /\ items = <<>>
        /\ sCall.op = "get_items" => sCall.ret = <<>>

(* ------------------------- add from two threads ----------------------- *)
\* C25: add is not isolated. A call that has returned gave the position of
\* its own item exactly when no other thread appended between its append and
\* its length read; every append in between moves the returned index one
\* further, so two interleaved calls return the same index. Calls made one
\* at a time always return the position of their item.
C25_AddNotIsolated ==
    \A t \in Threads :
        threads[t].pc = "done" =>
            /\ threads[t].ret = threads[t].pos + threads[t].between
            /\ threads[t].ret = threads[t].pos <=> threads[t].between = 0

C25_Witness ==
    /\ threads[1].pc = "done"
    /\ threads[2].pc = "done"
    /\ threads[1].pos # threads[2].pos
    /\ threads[1].ret = threads[2].ret
    /\ threads[1].ret # threads[1].pos
    /\ threads[2].ret = threads[2].pos

(* ---------------------------- the agent's loop ------------------------ *)
\* C26: once started, the loop idx = next_unanswered_topic();
\* mark_topic_answered(idx, c) with non-empty c and no add_topic in between
\* ends with next_unanswered_topic() = -1, after one iteration for each
\* topic that was unanswered at the start, taken in ascending index order.
C26_FlowTerminates ==
    /\ (flow.pc \in {"query", "mark"}) ~> (flow.pc = "done")
    /\ [](flow.pc = "done" =>
             /\ NextUnansweredTopic(topics) = 0 - 1
             /\ rCall.op = "next_unanswered_topic"
             /\ rCall.ret = 0 - 1
             /\ Len(flow.visited) = flow.todo
             /\ \A i, j \in 1..Len(flow.visited) :
                    i < j => flow.visited[i] < flow.visited[j])

C26_Witness ==
    /\ flow.pc = "done"
    /\ Len(topics) = 3
    /\ flow.todo = 2
    /\ flow.visited = <<0, 2>>
====
